---- MODULE Spec2Model ----
(***************************************************************************)
(* A model of go-snappystream: the writer and the reader of the snappy     *)
(* framed stream format (the chunking writer of writer.go's final          *)
(* revision and the reader with block-type dispatch).                      *)
(*                                                                         *)
(* Bytes are the integers 0..255 and byte slices are sequences of them.    *)
(* A uint32 is kept as the pair <<hi, lo>> of its 16-bit halves, so that   *)
(* every 32-bit value is representable and + and - wrap modulo 2^32 as     *)
(* they do in Go.                                                          *)
(***************************************************************************)
EXTENDS Integers, Sequences, FiniteSets, TLC

(***************************************************************************)
(* Bounds of the model.  MaxBlockSize and bufInit stand for the program's  *)
(* 65536 and 4096, scaled down so that blocks of the ceiling's size and    *)
(* frames larger than the initial raw-frame buffer are reached.            *)
(***************************************************************************)
MaxBlockSize == 5

bufInit == 8

MaxWrites == 2

MaxReq == 3

(***************************************************************************)
(* 16-bit and 32-bit unsigned arithmetic.                                  *)
(***************************************************************************)
W16 == 65536

RECURSIVE Xor(_, _)
Xor(a, b) ==
    IF a = 0 THEN b
    ELSE IF b = 0 THEN a
    ELSE ((a + b) % 2) + 2 * Xor(a \div 2, b \div 2)

Xor32(x, y) == <<Xor(x[1], y[1]), Xor(x[2], y[2])>>

\* x >> 1 on a uint32
Shr1(x) == <<x[1] \div 2, (x[2] \div 2) + (x[1] % 2) * 32768>>

\* x >> 8 on a uint32
Shr8(x) == <<x[1] \div 256, (x[2] \div 256) + (x[1] % 256) * 256>>

\* x + y modulo 2^32
Add32(x, y) ==
    LET lo == x[2] + y[2]
        hi == x[1] + y[1] + (lo \div W16)
    IN  <<hi % W16, lo % W16>>

\* x - y modulo 2^32
Sub32(x, y) ==
    LET lo == x[2] - y[2]
        borrow == IF lo < 0 THEN 1 ELSE 0
        hi == x[1] - y[1] - borrow
    IN  <<(hi + W16) % W16, (lo + W16) % W16>>

\* (c >> 15) | (c << 17): the top 17 bits move down, the low 15 bits move up
RotR15(c) ==
    <<(c[2] % 32768) * 2 + (c[1] \div 32768),
      (c[1] % 32768) * 2 + (c[2] \div 32768)>>

\* (x >> 17) | (x << 15): the top 15 bits move down, the low 17 bits move up
RotL15(x) ==
    <<(x[1] % 2) * 32768 + (x[2] \div 2),
      (x[2] % 2) * 32768 + (x[1] \div 2)>>

\* the mask constant 0xa282ead8
maskDelta == <<41602, 60120>>

\* maskChecksum rotating by 16 bits, the halves swapped, in place of 15
maskChecksum_rot16(c) == Add32(<<c[2], c[1]>>, maskDelta)

maskChecksum(c) == Add32(RotR15(c), maskDelta)

unmaskChecksum_norot(c) == Sub32(c, maskDelta)

unmaskChecksum(c) == RotL15(Sub32(c, maskDelta))

\* byte(v), byte(v >> 8), byte(v >> 16), byte(v >> 24)
LE32(v) == <<v[2] % 256, v[2] \div 256, v[1] % 256, v[1] \div 256>>

\* uint32(b[0]) | uint32(b[1])<<8 | uint32(b[2])<<16 | uint32(b[3])<<24
FromLE32(b) == <<b[3] + 256 * b[4], b[1] + 256 * b[2]>>

(***************************************************************************)
(* crc32.Checksum(p, crcTable) with the Castagnoli polynomial, table       *)
(* driven as in hash/crc32: the reversed polynomial is 0x82f63b78.         *)
(***************************************************************************)
castagnoli == <<33526, 15224>>

RECURSIVE crcEntry(_, _)
crcEntry(c, k) ==
    IF k = 0 THEN c
    ELSE crcEntry(IF c[2] % 2 = 1 THEN Xor32(Shr1(c), castagnoli) ELSE Shr1(c), k - 1)

crcTable == [i \in 0..255 |-> crcEntry(<<0, i>>, 8)]

RECURSIVE crcUpdate(_, _, _)
crcUpdate(crc, p, i) ==
    IF i > Len(p) THEN crc
    ELSE crcUpdate(Xor32(crcTable[Xor(crc[2] % 256, p[i])], Shr8(crc)), p, i + 1)

Checksum(p) == Xor32(crcUpdate(<<65535, 65535>>, p, 1), <<65535, 65535>>)

(***************************************************************************)
(* Errors.  An error value is a pair <<kind, argument>>; nil is the Go nil *)
(* error.                                                                  *)
(***************************************************************************)
nil == <<"nil", 0>>

EOF == <<"EOF", 0>>

ErrUnexpectedEOF == <<"unexpected EOF", 0>>

ErrCorrupt == <<"snappy: corrupt input", 0>>

errMissingStreamID == <<"missing stream identifier", 0>>

Min(a, b) == IF a < b THEN a ELSE b

\* the sequences of ss, concatenated
RECURSIVE Concat(_)
Concat(ss) == IF ss = <<>> THEN <<>> ELSE Head(ss) \o Concat(Tail(ss))

\* p[i : j] of Go (0-based, j exclusive)
Slice(p, i, j) == SubSeq(p, i + 1, j)

(***************************************************************************)
(* The block compressor (snappy.Encode, snappy.DecodedLen, snappy.Decode), *)
(* an external collaborator.  Encode writes the uvarint of the decoded     *)
(* length and then the input as literal elements: this is the encoder's    *)
(* output for every input of at most 4 bytes and for every input in which  *)
(* no 4-byte sequence repeats.  Decode reads the block format: literals    *)
(* and 1- and 2-byte-offset copies.                                        *)
(***************************************************************************)
RECURSIVE PutUvarint(_)
PutUvarint(x) ==
    IF x >= 128 THEN <<(x % 128) + 128>> \o PutUvarint(x \div 128)
    ELSE <<x>>

emitLiteral(lit) ==
    LET n == Len(lit) - 1
    IN  IF n < 60 THEN <<n * 4>> \o lit
        ELSE IF n < 256 THEN <<240, n>> \o lit
        ELSE <<244, n % 256, n \div 256>> \o lit

Encode(src) ==
    PutUvarint(Len(src)) \o (IF Len(src) # 0 THEN emitLiteral(src) ELSE <<>>)

\* binary.Uvarint: <<value, bytes read>>; bytes read is 0 when src ends inside
\* the varint.  Values are followed up to 4 bytes (28 bits); a longer varint
\* is read as a value above every block size.
RECURSIVE Uvarint(_, _, _, _)
Uvarint(src, i, acc, mul) ==
    IF i > Len(src) THEN <<0, 0>>
    ELSE IF i > 4 THEN <<268435456, i>>
    ELSE IF src[i] < 128 THEN <<acc + src[i] * mul, i>>
    ELSE Uvarint(src, i + 1, acc + (src[i] - 128) * mul, mul * 128)

\* snappy.DecodedLen: [len, n, err]
DecodedLen(src) ==
    LET u == Uvarint(src, 1, 0, 1)
    IN  IF u[2] = 0 THEN [len |-> 0, n |-> 0, err |-> ErrCorrupt]
        ELSE [len |-> u[1], n |-> u[2], err |-> nil]

RECURSIVE CopyBack(_, _, _)
CopyBack(out, offset, length) ==
    IF length = 0 THEN out
    ELSE CopyBack(Append(out, out[Len(out) + 1 - offset]), offset, length - 1)

\* the element loop of snappy.Decode: s is the 0-based position in src, out
\* the bytes decoded so far, dLen the declared length
RECURSIVE DecodeLoop(_, _, _, _)
DecodeLoop(src, s, out, dLen) ==
    IF s >= Len(src)
    THEN IF Len(out) # dLen THEN [data |-> <<>>, err |-> ErrCorrupt]
         ELSE [data |-> out, err |-> nil]
    ELSE
      LET tag == src[s + 1]
          kind == tag % 4
          x == tag \div 4
      IN  CASE kind = 0 ->
                 LET hs == IF x < 60 THEN 1 ELSE x - 58
                     s1 == s + hs
                 IN  IF s1 > Len(src) THEN [data |-> <<>>, err |-> ErrCorrupt]
                     ELSE
                       LET length ==
                             IF x < 60 THEN x + 1
                             ELSE IF x = 60 THEN src[s1] + 1
                             ELSE IF x = 61 THEN src[s1 - 1] + 256 * src[s1] + 1
                             ELSE 16777216
                       IN  IF length > dLen - Len(out) \/ length > Len(src) - s1
                           THEN [data |-> <<>>, err |-> ErrCorrupt]
                           ELSE DecodeLoop(src, s1 + length,
                                           out \o Slice(src, s1, s1 + length), dLen)
            [] kind = 1 ->
                 IF s + 2 > Len(src) THEN [data |-> <<>>, err |-> ErrCorrupt]
                 ELSE
                   LET length == 4 + ((tag \div 4) % 8)
                       offset == (tag \div 32) * 256 + src[s + 2]
                   IN  IF offset > Len(out) \/ offset = 0 \/ Len(out) + length > dLen
                       THEN [data |-> <<>>, err |-> ErrCorrupt]
                       ELSE DecodeLoop(src, s + 2, CopyBack(out, offset, length), dLen)
            [] kind = 2 ->
                 IF s + 3 > Len(src) THEN [data |-> <<>>, err |-> ErrCorrupt]
                 ELSE
                   LET length == 1 + (tag \div 4)
                       offset == src[s + 2] + 256 * src[s + 3]
                   IN  IF offset > Len(out) \/ offset = 0 \/ Len(out) + length > dLen
                       THEN [data |-> <<>>, err |-> ErrCorrupt]
                       ELSE DecodeLoop(src, s + 3, CopyBack(out, offset, length), dLen)
            [] OTHER ->
                 [data |-> <<>>, err |-> <<"snappy: unsupported COPY_4 tag", 0>>]

Decode(src) ==
    LET d == DecodedLen(src)
    IN  IF d.err # nil THEN [data |-> <<>>, err |-> d.err]
        ELSE DecodeLoop(src, d.n, <<>>, d.len)

(***************************************************************************)
(* Format constants.                                                       *)
(***************************************************************************)
\* includes block header: 0xff 0x06 0x00 0x00 "sNaPpY"
streamID == <<255, 6, 0, 0, 115, 78, 97, 80, 112, 89>>

blockCompressed == 0

blockUncompressed == 1

blockPadding == 254

blockStreamIdentifier == 255

\* The reader's bound on an encoded block (readBlock compares a declared
\* length with maxEncodedBlockSize + 4).  It is the length snappy.Encode gives
\* a block of MaxBlockSize bytes that it cannot shorten: the least bound under
\* which the reader takes every frame writer.write produces.
maxEncodedBlockSize == Len(Encode([i \in 1..MaxBlockSize |-> 0]))

(***************************************************************************)
(* State.                                                                  *)
(*   wire          the bytes.Buffer the writer writes to and the reader    *)
(*                 reads from: the bytes written and not yet read          *)
(*   sentStreamID  writer.sentStreamID                                     *)
(*   wlog          one record per Write call so far: its input, its        *)
(*                 result, the calls it made on the sink, and the fault it *)
(*                 met                                                     *)
(*   rerr, seenStreamID, verifyChecksum, buf, srcLen                       *)
(*                 reader.err, .seenStreamID, .verifyChecksum, the pending *)
(*                 bytes of .buf, and len(.src)                            *)
(*   delivered     every byte Read has returned so far, in order           *)
(*   rres          the last Read call: request size, result, bytes taken   *)
(*                 from the source                                         *)
(*   mode          which harness drives the two (see the specifications)   *)
(*   probe         the input and the results of the checksum-mask harness  *)
(***************************************************************************)
VARIABLES wire, sentStreamID, wlog,
          rerr, seenStreamID, verifyChecksum, buf, srcLen,
          delivered, rres, mode, probe

wvars == <<sentStreamID, wlog>>

rvars == <<rerr, seenStreamID, verifyChecksum, buf, srcLen, delivered, rres>>

vars == <<wire, sentStreamID, wlog, rerr, seenStreamID, verifyChecksum, buf,
          srcLen, delivered, rres, mode, probe>>

(***************************************************************************)
(* The writer.  A Write call aborts at its first failure, so the           *)
(* environment of one call is one fault: none, the call's k-th write on    *)
(* the sink failing (<<"sink", k>>), or the compressor failing on the      *)
(* call's j-th chunk (<<"enc", j>>).  The writer ignores the count a sink  *)
(* write returns; a failed sink write is taken to add nothing to the sink. *)
(***************************************************************************)
noFault == <<"none", 0>>

SinkErr == <<"sink write failed", 0>>

EncErr == <<"compressor failed", 0>>

\* one w.writer.Write(data): the call is logged, and fails when it is the
\* call the fault names
SinkWrite(st, kind, data, fault) ==
    LET ok == ~(fault[1] = "sink" /\ fault[2] = Len(st.calls) + 1)
    IN  [st EXCEPT !.calls = Append(@, [kind |-> kind, data |-> data, ok |-> ok]),
                   !.err = IF ok THEN nil ELSE SinkErr]

\* the 8-byte header with the checksum taken over the compressed bytes
FrameHeader_crcOfDst(p, dst) ==
    LET length == Len(dst) + 4
    IN  <<blockCompressed, length % 256, (length \div 256) % 256,
          (length \div 65536) % 256>> \o LE32(maskChecksum(Checksum(dst)))

\* the 8-byte header of a compressed frame
FrameHeader(p, dst) ==
    LET length == Len(dst) + 4
    IN  <<blockCompressed, length % 256, (length \div 256) % 256,
          (length \div 65536) % 256>> \o LE32(maskChecksum(Checksum(p)))

\* writer.write with sentStreamID set whether or not the identifier write
\* succeeded, and the frame written regardless
writeFrame_sentEarly(st, p, dst, fault) ==
    LET s1 == IF ~st.sent THEN SinkWrite(st, "id", streamID, fault) ELSE st
        s2 == SinkWrite([s1 EXCEPT !.sent = TRUE, !.err = nil], "hdr", FrameHeader(p, dst), fault)
    IN  IF s2.err # nil THEN [s2 EXCEPT !.n = 0]
        ELSE
          LET s3 == SinkWrite(s2, "data", dst, fault)
          IN  IF s3.err # nil THEN [s3 EXCEPT !.n = 0]
              ELSE [s3 EXCEPT !.n = Len(p)]

\* writer.write(p), from the stream identifier on: st is [sent, calls, err, n]
writeFrame(st, p, dst, fault) ==
    LET s1 == IF ~st.sent THEN SinkWrite(st, "id", streamID, fault) ELSE st
    IN  IF s1.err # nil THEN [s1 EXCEPT !.n = 0]
        ELSE
          LET s2 == SinkWrite([s1 EXCEPT !.sent = TRUE], "hdr", FrameHeader(p, dst), fault)
          IN  IF s2.err # nil THEN [s2 EXCEPT !.n = 0]
              ELSE
                LET s3 == SinkWrite(s2, "data", dst, fault)
                IN  IF s3.err # nil THEN [s3 EXCEPT !.n = 0]
                    ELSE [s3 EXCEPT !.n = Len(p)]

\* writer.write sending the stream identifier before it compresses
write_idBeforeEncode(st, p, chunk, fault) ==
    IF Len(p) > MaxBlockSize
    THEN [st EXCEPT !.n = 0, !.err = <<"block too large", Len(p)>>]
    ELSE IF fault = <<"enc", chunk>>
    THEN IF st.sent THEN [st EXCEPT !.n = 0, !.err = EncErr]
         ELSE [SinkWrite(st, "id", streamID, fault) EXCEPT !.sent = TRUE, !.n = 0, !.err = EncErr]
    ELSE writeFrame(st, p, Encode(p), fault)

\* writer.write(p) for the chunk numbered chunk (from 1) of the call
write(st, p, chunk, fault) ==
    IF Len(p) > MaxBlockSize
    THEN [st EXCEPT !.n = 0, !.err = <<"block too large", Len(p)>>]
    ELSE IF fault = <<"enc", chunk>>
    THEN [st EXCEPT !.n = 0, !.err = EncErr]
    ELSE writeFrame(st, p, Encode(p), fault)

\* writer.Write chunking at MaxBlockSize - 4, the limit of the earlier writer
RECURSIVE WriteLoop_minus4(_, _, _, _, _, _)
WriteLoop_minus4(st, p, i, sz, total, fault) ==
    IF ~(i < Len(p)) THEN [st EXCEPT !.n = total, !.err = nil]
    ELSE
      LET sz1 == Min(MaxBlockSize - 4, Len(p) - i)
          r == write(st, Slice(p, i, i + sz1), (i \div (MaxBlockSize - 4)) + 1, fault)
      IN  IF r.err # nil THEN [r EXCEPT !.n = 0]
          ELSE WriteLoop_minus4(r, p, i + (MaxBlockSize - 4), sz1, total + r.n, fault)

\* writer.Write looping only over whole blocks: the tail is never written
RECURSIVE WriteLoop_noTail(_, _, _, _, _, _)
WriteLoop_noTail(st, p, i, sz, total, fault) ==
    IF ~(i + MaxBlockSize <= Len(p)) THEN [st EXCEPT !.n = Len(p), !.err = nil]
    ELSE
      LET r == write(st, Slice(p, i, i + MaxBlockSize), (i \div MaxBlockSize) + 1, fault)
      IN  IF r.err # nil THEN [r EXCEPT !.n = 0]
          ELSE WriteLoop_noTail(r, p, i + MaxBlockSize, sz, total + r.n, fault)

\* writer.Write running its loop body before the first test, so that an
\* empty input is framed
RECURSIVE WriteLoop_atLeastOnce(_, _, _, _, _, _)
WriteLoop_atLeastOnce(st, p, i, sz, total, fault) ==
    IF ~(i < Len(p) \/ i = 0) THEN [st EXCEPT !.n = total, !.err = nil]
    ELSE
      LET sz1 == IF i + sz > Len(p) THEN Len(p) - i ELSE sz
          r == write(st, Slice(p, i, i + sz1), (i \div MaxBlockSize) + 1, fault)
      IN  IF r.err # nil THEN [r EXCEPT !.n = 0]
          ELSE WriteLoop_atLeastOnce(r, p, i + MaxBlockSize, sz1, total + r.n, fault)

\* the loop of writer.Write: i is the offset, sz the chunk size carried from
\* one iteration to the next, total the sum so far
RECURSIVE WriteLoop(_, _, _, _, _, _)
WriteLoop(st, p, i, sz, total, fault) ==
    IF ~(i < Len(p)) THEN [st EXCEPT !.n = total, !.err = nil]
    ELSE
      LET sz1 == IF i + sz > Len(p) THEN Len(p) - i ELSE sz
          r == write(st, Slice(p, i, i + sz1), (i \div MaxBlockSize) + 1, fault)
      IN  IF r.err # nil THEN [r EXCEPT !.n = 0]
          ELSE WriteLoop(r, p, i + MaxBlockSize, sz1, total + r.n, fault)

\* writer.Write(p) on a writer whose sentStreamID is sent
WriteCall(sent, p, fault) ==
    WriteLoop([sent |-> sent, calls |-> <<>>, err |-> nil, n |-> 0],
              p, 0, MaxBlockSize, 0, fault)

\* the bytes the sink took: the data of the calls that succeeded, in order
RECURSIVE SinkBytes(_)
SinkBytes(calls) ==
    IF calls = <<>> THEN <<>>
    ELSE (IF Head(calls).ok THEN Head(calls).data ELSE <<>>) \o SinkBytes(Tail(calls))

Write(p, fault) ==
    /\ LET r == WriteCall(sentStreamID, p, fault)
       IN  /\ sentStreamID' = r.sent
           /\ wire' = wire \o SinkBytes(r.calls)
           /\ wlog' = Append(wlog, [p |-> p, n |-> r.n, err |-> r.err,
                                    calls |-> r.calls, sentBefore |-> sentStreamID,
                                    fault |-> fault])
    /\ UNCHANGED <<rvars, mode, probe>>

(***************************************************************************)
(* The reader.  Its source is the bytes.Buffer wire: a read takes bytes    *)
(* from the front, and fails only by running out of bytes.  The reader's   *)
(* state in the operators below is the record                              *)
(*   [wire, seen, buf, srcLen, err]                                        *)
(* where err is the error of the step just taken.                          *)
(***************************************************************************)
\* a run-time panic of the Go program (an index or slice bound out of range)
Panic == <<"panic: slice bounds out of range", 0>>

\* decodeLength: a 24-bit little-endian length from b
decodeLength(b) == b[1] + 256 * b[2] + 65536 * b[3]

\* io.ReadFull(r.reader, b) for len(b) = n: [data, err, rest]
ReadFull(src, n) ==
    IF n = 0 THEN [data |-> <<>>, err |-> nil, rest |-> src]
    ELSE IF Len(src) = 0 THEN [data |-> <<>>, err |-> EOF, rest |-> src]
    ELSE IF Len(src) < n THEN [data |-> src, err |-> ErrUnexpectedEOF, rest |-> <<>>]
    ELSE [data |-> SubSeq(src, 1, n), err |-> nil, rest |-> SubSeq(src, n + 1, Len(src))]

\* io.CopyN(ioutil.Discard, r.reader, n): [err, rest]
CopyN(src, n) ==
    IF Len(src) < n THEN [err |-> EOF, rest |-> <<>>]
    ELSE [err |-> nil, rest |-> SubSeq(src, n + 1, Len(src))]

\* noeof and noeof64 passing io.EOF through
noeof_pass(err) == err

\* noeof and noeof64
noeof(err) == IF err = EOF THEN ErrUnexpectedEOF ELSE err

\* reader.readStreamID without the comparison of the payload
readStreamID_noCheck(r, hdr) ==
    IF hdr # SubSeq(streamID, 1, 4)
    THEN [r EXCEPT !.err = <<"invalid stream identifier length", 0>>]
    ELSE
      LET f == ReadFull(r.wire, 6)
      IN  [r EXCEPT !.wire = f.rest, !.err = noeof(f.err)]

\* reader.readStreamID, after the header hdr was read
readStreamID(r, hdr) ==
    IF hdr # SubSeq(streamID, 1, 4)
    THEN [r EXCEPT !.err = <<"invalid stream identifier length", 0>>]
    ELSE
      LET f == ReadFull(r.wire, 6)
      IN  IF noeof(f.err) # nil THEN [r EXCEPT !.wire = f.rest, !.err = noeof(f.err)]
          ELSE IF f.data # SubSeq(streamID, 5, 10)
          THEN [r EXCEPT !.wire = f.rest, !.err = <<"invalid stream identifier block", 0>>]
          ELSE [r EXCEPT !.wire = f.rest, !.err = nil]

\* reader.discardBlock leaving the payload in the source
discardBlock_none(r, hdr) == [r EXCEPT !.err = nil]

\* reader.discardBlock
discardBlock(r, hdr) ==
    LET c == CopyN(r.wire, decodeLength(SubSeq(hdr, 2, 4)))
    IN  [r EXCEPT !.wire = c.rest, !.err = noeof(c.err)]

\* reader.readBlock: the reader, with the block read in .block
readBlock(r, hdr) ==
    LET length == decodeLength(SubSeq(hdr, 2, 4))
    IN  IF length > maxEncodedBlockSize + 4
        THEN [block |-> <<>>, r |-> [r EXCEPT !.err = <<"encoded block data too large", length>>]]
        ELSE
          LET grown == IF length > r.srcLen THEN length ELSE r.srcLen
              f == ReadFull(r.wire, length)
          IN  [block |-> f.data,
               r |-> [r EXCEPT !.srcLen = grown, !.wire = f.rest, !.err = noeof(f.err)]]

\* reader.decodeBlock putting the decoded bytes in front of the pending ones
decodeData_prepend(r, hdr, block, verify) ==
    IF Len(block) < 4 THEN [r EXCEPT !.err = Panic]
    ELSE
      LET crc32le == SubSeq(block, 1, 4)
          raw == SubSeq(block, 5, Len(block))
          dl == IF hdr[1] = blockCompressed THEN DecodedLen(raw)
                ELSE [len |-> Len(raw), n |-> 0, err |-> nil]
      IN  IF dl.err # nil THEN [r EXCEPT !.err = dl.err]
          ELSE IF dl.len > MaxBlockSize
          THEN [r EXCEPT !.err = <<"decoded block data too large", dl.len>>]
          ELSE
            LET dec == IF hdr[1] = blockCompressed THEN Decode(raw)
                       ELSE [data |-> raw, err |-> nil]
            IN  IF dec.err # nil THEN [r EXCEPT !.err = dec.err]
                ELSE IF verify /\ unmaskChecksum(FromLE32(crc32le)) # Checksum(dec.data)
                THEN [r EXCEPT !.err = <<"checksum does not match", 0>>]
                ELSE [r EXCEPT !.buf = dec.data \o @, !.err = nil]

\* reader.decodeBlock, from the block read on: buf is that block
decodeData(r, hdr, block, verify) ==
    IF Len(block) < 4 THEN [r EXCEPT !.err = Panic]
    ELSE
      LET crc32le == SubSeq(block, 1, 4)
          raw == SubSeq(block, 5, Len(block))
          dl == IF hdr[1] = blockCompressed THEN DecodedLen(raw)
                ELSE [len |-> Len(raw), n |-> 0, err |-> nil]
      IN  IF dl.err # nil THEN [r EXCEPT !.err = dl.err]
          ELSE IF dl.len > MaxBlockSize
          THEN [r EXCEPT !.err = <<"decoded block data too large", dl.len>>]
          ELSE
            LET dec == IF hdr[1] = blockCompressed THEN Decode(raw)
                       ELSE [data |-> raw, err |-> nil]
            IN  IF dec.err # nil THEN [r EXCEPT !.err = dec.err]
                ELSE IF verify /\ unmaskChecksum(FromLE32(crc32le)) # Checksum(dec.data)
                THEN [r EXCEPT !.err = <<"checksum does not match", 0>>]
                ELSE [r EXCEPT !.buf = @ \o dec.data, !.err = nil]

\* reader.decodeBlock
decodeBlock(r, hdr, verify) ==
    LET b == readBlock(r, hdr)
    IN  IF b.r.err # nil THEN b.r
        ELSE decodeData(b.r, hdr, b.block, verify)

\* reader.nextFrame without the test of seenStreamID, as in the earlier reader
RECURSIVE nextFrame_noIdCheck(_, _)
nextFrame_noIdCheck(r, verify) ==
    LET h == ReadFull(r.wire, 4)
        r1 == [r EXCEPT !.wire = h.rest]
        hdr == h.data
    IN  IF h.err # nil THEN [r1 EXCEPT !.err = h.err]
        ELSE IF hdr[1] = blockStreamIdentifier
        THEN LET r2 == readStreamID(r1, hdr)
             IN  IF r2.err # nil THEN r2
                 ELSE nextFrame_noIdCheck([r2 EXCEPT !.seen = TRUE], verify)
        ELSE IF hdr[1] = blockCompressed \/ hdr[1] = blockUncompressed
        THEN decodeBlock(r1, hdr, verify)
        ELSE IF hdr[1] = blockPadding \/ (128 <= hdr[1] /\ hdr[1] <= 253)
        THEN LET r2 == discardBlock(r1, hdr)
             IN  IF r2.err # nil THEN r2 ELSE nextFrame_noIdCheck(r2, verify)
        ELSE LET r2 == discardBlock(r1, hdr)
             IN  IF r2.err # nil THEN r2
                 ELSE [r2 EXCEPT !.err = <<"unrecognized unskippable frame", hdr[1]>>]

\* reader.nextFrame going on to the next frame after a data frame, until the
\* source fails
RECURSIVE nextFrame_drain(_, _)
nextFrame_drain(r, verify) ==
    LET h == ReadFull(r.wire, 4)
        r1 == [r EXCEPT !.wire = h.rest]
        hdr == h.data
    IN  IF h.err # nil THEN [r1 EXCEPT !.err = h.err]
        ELSE IF hdr[1] = blockStreamIdentifier
        THEN LET r2 == readStreamID(r1, hdr)
             IN  IF r2.err # nil THEN r2
                 ELSE nextFrame_drain([r2 EXCEPT !.seen = TRUE], verify)
        ELSE IF ~r1.seen THEN [r1 EXCEPT !.err = errMissingStreamID]
        ELSE IF hdr[1] = blockCompressed \/ hdr[1] = blockUncompressed
        THEN LET r2 == decodeBlock(r1, hdr, verify)
             IN  IF r2.err # nil THEN r2 ELSE nextFrame_drain(r2, verify)
        ELSE IF hdr[1] = blockPadding \/ (128 <= hdr[1] /\ hdr[1] <= 253)
        THEN LET r2 == discardBlock(r1, hdr)
             IN  IF r2.err # nil THEN r2 ELSE nextFrame_drain(r2, verify)
        ELSE LET r2 == discardBlock(r1, hdr)
             IN  IF r2.err # nil THEN r2
                 ELSE [r2 EXCEPT !.err = <<"unrecognized unskippable frame", hdr[1]>>]

\* reader.nextFrame
RECURSIVE nextFrame(_, _)
nextFrame(r, verify) ==
    LET h == ReadFull(r.wire, 4)
        r1 == [r EXCEPT !.wire = h.rest]
        hdr == h.data
    IN  IF h.err # nil THEN [r1 EXCEPT !.err = h.err]
        ELSE IF hdr[1] = blockStreamIdentifier
        THEN LET r2 == readStreamID(r1, hdr)
             IN  IF r2.err # nil THEN r2
                 ELSE nextFrame([r2 EXCEPT !.seen = TRUE], verify)
        ELSE IF ~r1.seen THEN [r1 EXCEPT !.err = errMissingStreamID]
        ELSE IF hdr[1] = blockCompressed \/ hdr[1] = blockUncompressed
        THEN decodeBlock(r1, hdr, verify)
        ELSE IF hdr[1] = blockPadding \/ (128 <= hdr[1] /\ hdr[1] <= 253)
        THEN LET r2 == discardBlock(r1, hdr)
             IN  IF r2.err # nil THEN r2 ELSE nextFrame(r2, verify)
        ELSE LET r2 == discardBlock(r1, hdr)
             IN  IF r2.err # nil THEN r2
                 ELSE [r2 EXCEPT !.err = <<"unrecognized unskippable frame", hdr[1]>>]

\* reader.read: r.buf.Read(b) for len(b) = n, its error kept in r.err
read(r, n) ==
    IF Len(r.buf) = 0
    THEN [r |-> [r EXCEPT !.err = IF n = 0 THEN nil ELSE EOF],
          out |-> <<>>, err |-> IF n = 0 THEN nil ELSE EOF]
    ELSE LET k == Min(n, Len(r.buf))
         IN  [r |-> [r EXCEPT !.buf = SubSeq(@, k + 1, Len(@)), !.err = nil],
              out |-> SubSeq(r.buf, 1, k), err |-> nil]

\* reader.Read returning end-of-stream as soon as the source is exhausted,
\* the pending bytes left behind
ReadCall_eofDropsPending(r, n, verify) ==
    IF r.err # nil THEN [r |-> r, out |-> <<>>, err |-> r.err]
    ELSE IF Len(r.buf) < n
    THEN LET r1 == nextFrame(r, verify)
         IN  IF r1.err = Panic
             THEN [r |-> [r1 EXCEPT !.err = r.err], out |-> <<>>, err |-> Panic]
             ELSE IF r1.err # nil THEN [r |-> r1, out |-> <<>>, err |-> r1.err]
             ELSE read(r1, n)
    ELSE read(r, n)

\* reader.Read without the test of r.err on entry
ReadCall_noSticky(r, n, verify) ==
    IF Len(r.buf) < n
    THEN LET r1 == nextFrame(r, verify)
         IN  IF r1.err = EOF THEN read(r1, n)
             ELSE IF r1.err = Panic
             THEN [r |-> [r1 EXCEPT !.err = r.err], out |-> <<>>, err |-> Panic]
             ELSE IF r1.err # nil THEN [r |-> r1, out |-> <<>>, err |-> r1.err]
             ELSE read(r1, n)
    ELSE read(r, n)

\* reader.Read decoding a frame also when exactly len(b) bytes are pending
ReadCall_decodeAtEqual(r, n, verify) ==
    IF r.err # nil THEN [r |-> r, out |-> <<>>, err |-> r.err]
    ELSE IF Len(r.buf) <= n
    THEN LET r1 == nextFrame(r, verify)
         IN  IF r1.err = EOF THEN read(r1, n)
             ELSE IF r1.err = Panic
             THEN [r |-> [r1 EXCEPT !.err = r.err], out |-> <<>>, err |-> Panic]
             ELSE IF r1.err # nil THEN [r |-> r1, out |-> <<>>, err |-> r1.err]
             ELSE read(r1, n)
    ELSE read(r, n)

\* reader.Read handing out the pending bytes when the next frame fails
ReadCall_flushOnError(r, n, verify) ==
    IF r.err # nil THEN [r |-> r, out |-> <<>>, err |-> r.err]
    ELSE IF Len(r.buf) < n
    THEN LET r1 == nextFrame(r, verify)
         IN  IF r1.err = EOF THEN read(r1, n)
             ELSE IF r1.err = Panic
             THEN [r |-> [r1 EXCEPT !.err = r.err], out |-> <<>>, err |-> Panic]
             ELSE IF r1.err # nil
             THEN [r |-> [r1 EXCEPT !.buf = <<>>], out |-> r1.buf, err |-> r1.err]
             ELSE read(r1, n)
    ELSE read(r, n)

\* reader.Read trying the source again after end-of-stream
ReadCall_retryAfterEOF(r, n, verify) ==
    IF r.err # nil /\ r.err # EOF THEN [r |-> r, out |-> <<>>, err |-> r.err]
    ELSE IF Len(r.buf) < n
    THEN LET r1 == nextFrame([r EXCEPT !.err = nil], verify)
         IN  IF r1.err = EOF THEN read(r1, n)
             ELSE IF r1.err = Panic
             THEN [r |-> [r1 EXCEPT !.err = r.err], out |-> <<>>, err |-> Panic]
             ELSE IF r1.err # nil THEN [r |-> r1, out |-> <<>>, err |-> r1.err]
             ELSE read(r1, n)
    ELSE read(r, n)

\* reader.Read(b) for len(b) = n: [r, out, err]
ReadCall(r, n, verify) ==
    IF r.err # nil THEN [r |-> r, out |-> <<>>, err |-> r.err]
    ELSE IF Len(r.buf) < n
    THEN LET r1 == nextFrame(r, verify)
         IN  IF r1.err = EOF THEN read(r1, n)
             ELSE IF r1.err = Panic
             THEN [r |-> [r1 EXCEPT !.err = r.err], out |-> <<>>, err |-> Panic]
             ELSE IF r1.err # nil THEN [r |-> r1, out |-> <<>>, err |-> r1.err]
             ELSE read(r1, n)
    ELSE read(r, n)

Read(n) ==
    /\ LET r == ReadCall([wire |-> wire, seen |-> seenStreamID, buf |-> buf,
                          srcLen |-> srcLen, err |-> rerr], n, verifyChecksum)
       IN  /\ wire' = r.r.wire
           /\ seenStreamID' = r.r.seen
           /\ buf' = r.r.buf
           /\ srcLen' = r.r.srcLen
           /\ rerr' = r.r.err
           /\ delivered' = delivered \o r.out
           /\ rres' = [called |-> TRUE, req |-> n, n |-> Len(r.out), err |-> r.err,
                       took |-> Len(wire) - Len(r.r.wire),
                       pendingBefore |-> Len(buf), errBefore |-> rerr]
    /\ UNCHANGED <<wvars, verifyChecksum, mode, probe>>

(***************************************************************************)
(* Inputs.  Pat(n, s) is n bytes, the letters from the s-th on, so that no *)
(* byte repeats within an input and a byte moved, dropped or duplicated    *)
(* shows.                                                                  *)
(***************************************************************************)
Pat(n, s) == [i \in 1..n |-> 97 + ((s + i - 1) % 26)]

MaxLen == 2 * MaxBlockSize + 1

InputLens == {0, 1, MaxBlockSize, MaxBlockSize + 1, MaxLen}

Inputs == {Pat(n, 0) : n \in InputLens}

\* the faults a Write of p can meet: at most 1 + 2 * chunks sink writes, and
\* one call of the compressor per chunk
Faults(p) ==
    {noFault}
      \cup {<<"sink", k>> : k \in 1..(1 + 2 * ((Len(p) + MaxBlockSize - 1) \div MaxBlockSize))}
      \cup {<<"enc", j>> : j \in 1..((Len(p) + MaxBlockSize - 1) \div MaxBlockSize)}

NoRead == [called |-> FALSE, req |-> 0, n |-> 0, err |-> nil, took |-> 0,
           pendingBefore |-> 0, errBefore |-> nil]

NoProbe == [stage |-> 0, x |-> <<0, 0>>, masked |-> <<0, 0>>, unmasked |-> <<0, 0>>]

NoHarness(name) == [name |-> name, phase |-> "", p |-> <<>>, psize |-> 0,
                    outA |-> <<>>, errA |-> nil]

\* NewWriter and NewReader over an empty buffer
Fresh ==
    /\ wire = <<>>
    /\ sentStreamID = FALSE
    /\ wlog = <<>>
    /\ rerr = nil
    /\ seenStreamID = FALSE
    /\ buf = <<>>
    /\ srcLen = bufInit
    /\ delivered = <<>>
    /\ rres = NoRead

(***************************************************************************)
(* Spec: a writer and a reader over one bytes.Buffer, as in the tests.     *)
(* Write and Read calls come in any order; the buffer never fails.         *)
(***************************************************************************)
Init ==
    /\ Fresh
    /\ verifyChecksum \in BOOLEAN
    /\ mode = NoHarness("pipe")
    /\ probe = NoProbe

PipeWrite == Len(wlog) < MaxWrites /\ \E p \in Inputs : Write(p, noFault)

PipeRead == \E n \in 0..MaxReq : Read(n)

Next == PipeWrite \/ PipeRead

Spec == Init /\ [][Next]_vars

(***************************************************************************)
(* SpecW: a writer over a sink that may fail any one of its writes.        *)
(***************************************************************************)
InitW ==
    /\ Fresh
    /\ verifyChecksum = TRUE
    /\ mode = NoHarness("sink")
    /\ probe = NoProbe

SinkWriteCall == Len(wlog) < MaxWrites /\ \E p \in Inputs : \E f \in Faults(p) : Write(p, f)

NextW == SinkWriteCall

SpecW == InitW /\ [][NextW]_vars

(***************************************************************************)
(* SpecMask: the checksum mask applied to x and then undone, for x drawn   *)
(* from halves around the word ends, the mask constant and its complement. *)
(***************************************************************************)
Halves == {0, 1, 2, 255, 256, 4660, 5415, 5416, 21845, 23933, 23934, 32767, 32768,
           32769, 41602, 43690, 60120, 65534, 65535}

InitMask ==
    /\ Fresh
    /\ verifyChecksum = TRUE
    /\ mode = NoHarness("mask")
    /\ probe \in {[stage |-> 0, x |-> <<h, l>>, masked |-> <<0, 0>>, unmasked |-> <<0, 0>>] :
                    h \in Halves, l \in Halves}

MaskStep ==
    /\ probe.stage = 0
    /\ probe' = [probe EXCEPT !.stage = 1, !.masked = maskChecksum(probe.x)]
    /\ UNCHANGED <<wire, wvars, rvars, mode>>

UnmaskStep ==
    /\ probe.stage = 1
    /\ probe' = [probe EXCEPT !.stage = 2, !.unmasked = unmaskChecksum(probe.masked)]
    /\ UNCHANGED <<wire, wvars, rvars, mode>>

NextMask == MaskStep \/ UnmaskStep

SpecMask == InitMask /\ [][NextMask]_vars

(***************************************************************************)
(* SpecChunk: the harness of TestWriterChunk, run twice on one input p     *)
(* longer than a block.  Phase A writes p in one Write call and reads it   *)
(* back with io.ReadFull; then a new writer, reader and buffer are made,   *)
(* and phase B writes p in pieces of psize bytes, one Write call each, and *)
(* reads it back the same way.                                             *)
(***************************************************************************)
LongInputs == {Pat(n, s) : n \in (MaxBlockSize + 1)..MaxLen, s \in {0, 7}}

PieceSizes == {1, MaxBlockSize - 1, MaxBlockSize}

NumPieces(p, k) == (Len(p) + k - 1) \div k

Piece(p, k, j) == Slice(p, (j - 1) * k, Min(j * k, Len(p)))

InitChunk ==
    /\ Fresh
    /\ verifyChecksum \in BOOLEAN
    /\ \E p \in LongInputs, k \in PieceSizes :
          mode = [name |-> "chunk", phase |-> "A", p |-> p, psize |-> k,
                  outA |-> <<>>, errA |-> nil]
    /\ probe = NoProbe

\* the Write calls of the phase are done
ChunkWritten ==
    IF mode.phase = "A" THEN Len(wlog) = 1
    ELSE Len(wlog) = NumPieces(mode.p, mode.psize)

\* io.ReadFull has returned: the buffer is full or a Read returned an error
ChunkReadDone ==
    ChunkWritten /\ (Len(delivered) >= Len(mode.p) \/ (rres.called /\ rres.err # nil))

ChunkWriteWhole ==
    /\ mode.phase = "A"
    /\ wlog = <<>>
    /\ Write(mode.p, noFault)

ChunkWritePiece ==
    /\ mode.phase = "B"
    /\ ~ChunkWritten
    /\ Write(Piece(mode.p, mode.psize, Len(wlog) + 1), noFault)

\* one turn of io.ReadFull's loop: r.Read(out[n:])
ChunkRead ==
    /\ ChunkWritten
    /\ ~ChunkReadDone
    /\ Read(Len(mode.p) - Len(delivered))

\* phase A is over: its outcome is kept, and NewWriter and NewReader are
\* called on a new buffer
ChunkRestart ==
    /\ mode.phase = "A"
    /\ ChunkReadDone
    /\ mode' = [mode EXCEPT !.phase = "B", !.outA = delivered, !.errA = rres.err]
    /\ wire' = <<>>
    /\ sentStreamID' = FALSE
    /\ wlog' = <<>>
    /\ rerr' = nil
    /\ seenStreamID' = FALSE
    /\ buf' = <<>>
    /\ srcLen' = bufInit
    /\ delivered' = <<>>
    /\ rres' = NoRead
    /\ UNCHANGED <<verifyChecksum, probe>>

NextChunk == ChunkWriteWhole \/ ChunkWritePiece \/ ChunkRead \/ ChunkRestart

SpecChunk == InitChunk /\ [][NextChunk]_vars

(***************************************************************************)
(* SpecR: a reader over a stream some producer wrote: frames of the wire   *)
(* format, well formed or not, after a stream identifier or without one.   *)
(***************************************************************************)
\* a frame: the type, the 24-bit little-endian length, the data section
MkFrame(typ, length, body) ==
    <<typ, length % 256, (length \div 256) % 256, (length \div 65536) % 256>> \o body

\* a compressed or uncompressed frame: checksum bytes, then the block
DataFrame(typ, crc, block) == MkFrame(typ, 4 + Len(block), crc \o block)

GoodCrc(d) == LE32(maskChecksum(Checksum(d)))

\* the checksum bytes with the lowest byte off by one
BadCrc(d) == [GoodCrc(d) EXCEPT ![1] = (@ + 1) % 256]

\* the block with its last byte changed
Altered(b) == [b EXCEPT ![Len(b)] = (@ + 1) % 256]

MaxFrames == 2

Catalog ==
    { streamID,
      DataFrame(blockCompressed, GoodCrc(Pat(2, 0)), Encode(Pat(2, 0))),
      DataFrame(blockUncompressed, GoodCrc(Pat(MaxBlockSize, 2)), Pat(MaxBlockSize, 2)),
      DataFrame(blockCompressed, BadCrc(Pat(2, 4)), Encode(Pat(2, 4))),
      DataFrame(blockUncompressed, BadCrc(Pat(1, 6)), Pat(1, 6)),
      DataFrame(blockCompressed, GoodCrc(Pat(2, 8)), Altered(Encode(Pat(2, 8)))),
      DataFrame(blockCompressed, GoodCrc(Pat(1, 0)), <<3, 0, 97>>),
      DataFrame(blockUncompressed, GoodCrc(<<>>), <<>>),
      DataFrame(blockUncompressed, BadCrc(<<>>), <<>>),
      DataFrame(blockUncompressed, GoodCrc(Pat(MaxBlockSize + 1, 0)), Pat(MaxBlockSize + 1, 0)),
      MkFrame(blockCompressed, maxEncodedBlockSize + 5, <<1, 2, 3>>),
      MkFrame(blockUncompressed, 2, <<1, 2>>),
      MkFrame(blockPadding, 2, <<0, 255>>),
      MkFrame(128, 1, <<7>>),
      MkFrame(16, 1, <<7>>),
      <<255, 5, 0, 0, 115, 78, 97, 80, 112>>,
      <<255, 6, 0, 0, 115, 78, 97, 80, 112, 88>> }

FrameSeqs == UNION {[1..n -> Catalog] : n \in 0..MaxFrames}

Streams == {pre \o Concat(fs) : pre \in {<<>>, streamID}, fs \in FrameSeqs}

InitR ==
    /\ wire \in Streams
    /\ sentStreamID = FALSE
    /\ wlog = <<>>
    /\ rerr = nil
    /\ seenStreamID = FALSE
    /\ buf = <<>>
    /\ srcLen = bufInit
    /\ delivered = <<>>
    /\ rres = NoRead
    /\ verifyChecksum \in BOOLEAN
    /\ mode = NoHarness("stream")
    /\ probe = NoProbe

StreamRead == \E n \in 0..MaxReq : Read(n)

NextR == StreamRead

SpecR == InitR /\ [][NextR]_vars

(***************************************************************************)
(* SpecS: a reader over a well-formed stream: the stream identifier, then  *)
(* up to MaxStream frames, each a data frame with a matching checksum, a   *)
(* padding frame, a reserved skippable frame or a further stream           *)
(* identifier.  The producer's record of the stream is kept in mode:       *)
(*   p       the contents of its data frames, concatenated in stream order *)
(*   marks   for each data frame, the number of bytes that follow it       *)
(*   cum     for each data frame, the length of p up to its end            *)
(*   empty   whether some data frame holds no bytes                        *)
(***************************************************************************)
\* a data frame holding d, and what it decodes to
SData(typ, d) ==
    [b |-> DataFrame(typ, GoodCrc(d), IF typ = blockCompressed THEN Encode(d) ELSE d),
     d |-> d, data |-> TRUE]

\* a frame that carries no data
SSkip(bytes) == [b |-> bytes, d |-> <<>>, data |-> FALSE]

MaxStream == 3

WellFormed ==
    { SData(blockCompressed, Pat(2, 0)),
      SData(blockUncompressed, Pat(3, 4)),
      SData(blockUncompressed, <<>>),
      SSkip(MkFrame(blockPadding, 2, <<255, 1>>)),
      SSkip(MkFrame(128, 1, <<7>>)),
      SSkip(MkFrame(253, 0, <<>>)),
      SSkip(streamID) }

RECURSIVE FrameBytes(_)
FrameBytes(fs) == IF fs = <<>> THEN <<>> ELSE Head(fs).b \o FrameBytes(Tail(fs))

RECURSIVE FrameContents(_)
FrameContents(fs) == IF fs = <<>> THEN <<>> ELSE Head(fs).d \o FrameContents(Tail(fs))

FrameMarks(fs) ==
    {Len(FrameBytes(SubSeq(fs, i + 1, Len(fs)))) : i \in {j \in 1..Len(fs) : fs[j].data}}

\* for each data frame, by its mark, the length of the contents of the data
\* frames up to and including it
FrameCum(fs) ==
    [m \in FrameMarks(fs) |->
        LET i == CHOOSE j \in 1..Len(fs) :
                    fs[j].data /\ Len(FrameBytes(SubSeq(fs, j + 1, Len(fs)))) = m
        IN  Len(FrameContents(SubSeq(fs, 1, i)))]

InitS ==
    /\ \E fs \in UNION {[1..n -> WellFormed] : n \in 0..MaxStream} :
          /\ wire = streamID \o FrameBytes(fs)
          /\ mode = [name |-> "frames", p |-> FrameContents(fs), marks |-> FrameMarks(fs),
                     cum |-> FrameCum(fs),
                     empty |-> \E i \in 1..Len(fs) : fs[i].data /\ fs[i].d = <<>>]
    /\ sentStreamID = FALSE
    /\ wlog = <<>>
    /\ rerr = nil
    /\ seenStreamID = FALSE
    /\ buf = <<>>
    /\ srcLen = bufInit
    /\ delivered = <<>>
    /\ rres = NoRead
    /\ verifyChecksum \in BOOLEAN
    /\ probe = NoProbe

FramesRead == \E n \in 0..MaxReq : Read(n)

NextS == FramesRead

SpecS == InitS /\ [][NextS]_vars

(***************************************************************************)
(* SpecL: the writer and the reader of Spec, the reader called with        *)
(* buffers of one byte, of a block, and of more than a block.              *)
(***************************************************************************)
ReadSizes == {1, MaxBlockSize, MaxBlockSize + 1, 2 * MaxBlockSize}

InitL ==
    /\ Fresh
    /\ verifyChecksum = TRUE
    /\ mode = NoHarness("large")
    /\ probe = NoProbe

LargeWrite == Len(wlog) < MaxWrites /\ \E p \in Inputs : Write(p, noFault)

LargeRead == \E n \in ReadSizes : Read(n)

NextL == LargeWrite \/ LargeRead

SpecL == InitL /\ [][NextL]_vars

(***************************************************************************)
(* SpecT: a reader over a source that ends early: a stream of up to        *)
(* MaxCut frames, with or without the leading stream identifier, cut after *)
(* any number of its bytes (all of them included).                         *)
(***************************************************************************)
MaxCut == 2

CutFrames ==
    { DataFrame(blockCompressed, GoodCrc(Pat(2, 0)), Encode(Pat(2, 0))),
      MkFrame(blockPadding, 2, <<255, 1>>),
      MkFrame(128, 1, <<7>>),
      MkFrame(2, 2, <<7, 8>>),
      MkFrame(127, 1, <<9>>),
      streamID }

CutStreams ==
    {pre \o Concat(fs) : pre \in {<<>>, streamID},
                         fs \in UNION {[1..n -> CutFrames] : n \in 0..MaxCut}}

InitT ==
    /\ \E st \in CutStreams : \E k \in 0..Len(st) : wire = SubSeq(st, 1, k)
    /\ sentStreamID = FALSE
    /\ wlog = <<>>
    /\ rerr = nil
    /\ seenStreamID = FALSE
    /\ buf = <<>>
    /\ srcLen = bufInit
    /\ delivered = <<>>
    /\ rres = NoRead
    /\ verifyChecksum = TRUE
    /\ mode = NoHarness("cut")
    /\ probe = NoProbe

CutRead == \E n \in 0..MaxReq : Read(n)

NextT == CutRead

SpecT == InitT /\ [][NextT]_vars

(***************************************************************************)
(* Observers used by the properties.                                       *)
(***************************************************************************)
\* the inputs of the Write calls so far that were accepted, concatenated
RECURSIVE Accepted(_)
Accepted(log) ==
    IF log = <<>> THEN <<>>
    ELSE (IF Head(log).err = nil THEN Head(log).p ELSE <<>>) \o Accepted(Tail(log))

\* every call made on the sink so far, in order
RECURSIVE AllCalls(_)
AllCalls(log) ==
    IF log = <<>> THEN <<>>
    ELSE Head(log).calls \o AllCalls(Tail(log))

\* the calls of one Write call without its stream-identifier write
FrameCalls(w) == SelectSeq(w.calls, LAMBDA c : c.kind # "id")

\* the j-th MaxBlockSize-sized piece of p (from 1)
ChunkOf(p, j) == Slice(p, (j - 1) * MaxBlockSize, Min(j * MaxBlockSize, Len(p)))

NumChunks(p) == (Len(p) + MaxBlockSize - 1) \div MaxBlockSize

(***************************************************************************)
(* C1. Round trip.  Over a buffer that never fails and with checksum       *)
(* verification on, the reader reports no error but end-of-stream, and at  *)
(* the Read call that first signals end-of-stream it has delivered exactly *)
(* the inputs written so far, concatenated in order, with nothing left     *)
(* pending or unread.                                                      *)
(***************************************************************************)
NoHardError == verifyChecksum => (rerr \in {nil, EOF} /\ rres.err \in {nil, EOF})

RoundTripStep ==
    (verifyChecksum /\ rerr = nil /\ rerr' = EOF)
      => (delivered' = Accepted(wlog') /\ buf' = <<>> /\ wire' = <<>>)

RoundTrip == []NoHardError /\ [][RoundTripStep]_vars

\* two Write calls, one several blocks long and one of exactly a block, all
\* read back up to end-of-stream
RoundTripWitness ==
    /\ verifyChecksum
    /\ rerr = EOF
    /\ Len(wlog) = 2
    /\ Len(wlog[1].p) = MaxLen
    /\ Len(wlog[2].p) = MaxBlockSize
    /\ delivered = wlog[1].p \o wlog[2].p

(***************************************************************************)
(* C2. Chunking transparency.  When io.ReadFull returns, in either phase,  *)
(* it has filled the buffer with exactly p and met no error, and p went    *)
(* out as several frames in phase A; so the one-call run and the run in    *)
(* pieces decode to the same bytes.                                        *)
(***************************************************************************)
ChunkTransparent ==
    ChunkReadDone
      => /\ delivered = mode.p
         /\ rres.err = nil
         /\ (mode.phase = "A" => Len(FrameCalls(wlog[1])) >= 4)
         /\ (mode.phase = "B" => (mode.outA = delivered /\ mode.errA = nil))

\* both runs are over, for the longest input cut into block-sized pieces
ChunkTransparentWitness ==
    /\ mode.phase = "B"
    /\ ChunkReadDone
    /\ mode.psize = MaxBlockSize
    /\ Len(mode.p) = MaxLen
    /\ Len(wlog) = 3
    /\ mode.outA = mode.p
    /\ delivered = mode.p

(***************************************************************************)
(* C3. Write returns len(p) with no error or 0 with an error; a returned   *)
(* length of 0 always comes with an error.                                 *)
(***************************************************************************)
WriteAllOrError ==
    \A i \in 1..Len(wlog) :
        /\ \/ (wlog[i].n = Len(wlog[i].p) /\ wlog[i].err = nil)
           \/ (wlog[i].n = 0 /\ wlog[i].err # nil)
        /\ (wlog[i].n = 0 => wlog[i].err # nil)

(***************************************************************************)
(* C4. The stream identifier is written successfully at most once, no      *)
(* header or payload is handed to the sink before that, and sentStreamID   *)
(* is true exactly when the identifier write has succeeded.                *)
(***************************************************************************)
IdWritten(calls) == {k \in 1..Len(calls) : calls[k].kind = "id" /\ calls[k].ok}

StreamIDOnce ==
    LET calls == AllCalls(wlog)
    IN  /\ Cardinality(IdWritten(calls)) <= 1
        /\ \A k \in 1..Len(calls) :
              calls[k].kind # "id" => \E j \in IdWritten(calls) : j < k
        /\ sentStreamID <=> IdWritten(calls) # {}

\* the identifier write failed in one call and succeeded in the next
StreamIDOnceWitness ==
    /\ Len(wlog) = 2
    /\ wlog[1].calls # <<>>
    /\ \A k \in 1..Len(wlog[1].calls) : ~wlog[1].calls[k].ok
    /\ wlog[2].err = nil
    /\ Len(wlog[2].p) > MaxBlockSize
    /\ sentStreamID

(***************************************************************************)
(* C5. As claimed: an input longer than MaxBlockSize - 4 is split into     *)
(* chunks of at most MaxBlockSize - 4 bytes, one frame per chunk, in input *)
(* order.                                                                  *)
(***************************************************************************)
\* the chunks an accepted Write call framed, read back from its payloads
ChunksWritten(w) ==
    LET fc == FrameCalls(w)
    IN  [j \in 1..(Len(fc) \div 2) |-> Decode(fc[2 * j].data).data]

ChunkLimitMinus4 ==
    \A i \in 1..Len(wlog) :
        (wlog[i].err = nil /\ Len(wlog[i].p) > MaxBlockSize - 4)
          => LET cs == ChunksWritten(wlog[i])
             IN  /\ Concat(cs) = wlog[i].p
                 /\ \A j \in 1..Len(cs) : Len(cs[j]) <= MaxBlockSize - 4

(***************************************************************************)
(* C5, amended.  An accepted input of n bytes is split at multiples of     *)
(* MaxBlockSize into NumChunks(n) = ceil(n / MaxBlockSize) chunks: one     *)
(* frame per chunk, in input order, every chunk but the last exactly       *)
(* MaxBlockSize bytes and the last between 1 and MaxBlockSize.  So the     *)
(* empty input writes no frame, a non-empty input of at most MaxBlockSize  *)
(* bytes is one frame, and only a longer one is split.                     *)
(***************************************************************************)
ChunkLimit ==
    \A i \in 1..Len(wlog) :
        wlog[i].err = nil
          => LET cs == ChunksWritten(wlog[i])
                 fc == FrameCalls(wlog[i])
             IN  /\ Len(fc) = 2 * NumChunks(wlog[i].p)
                 /\ Len(cs) = NumChunks(wlog[i].p)
                 /\ Concat(cs) = wlog[i].p
                 /\ \A j \in 1..Len(cs) :
                       /\ cs[j] = ChunkOf(wlog[i].p, j)
                       /\ 1 <= Len(cs[j]) /\ Len(cs[j]) <= MaxBlockSize
                       /\ (j < Len(cs) => Len(cs[j]) = MaxBlockSize)

\* an accepted input of three chunks, and one of exactly MaxBlockSize bytes
ChunkLimitWitness ==
    /\ Len(wlog) = 2
    /\ wlog[1].err = nil /\ Len(wlog[1].p) = MaxLen
    /\ Len(ChunksWritten(wlog[1])) = 3
    /\ wlog[2].err = nil /\ Len(wlog[2].p) = MaxBlockSize
    /\ Len(ChunksWritten(wlog[2])) = 1

(***************************************************************************)
(* C6. Every frame handed to the sink is an 8-byte header and then the     *)
(* payload: tag 0x00, the 24-bit little-endian len(compress(c)) + 4, the   *)
(* little-endian masked checksum of the chunk c, and compress(c); no frame *)
(* carries the uncompressed tag 0x01.                                      *)
(***************************************************************************)
FrameLayout ==
    \A i \in 1..Len(wlog) :
        LET fc == FrameCalls(wlog[i])
            p == wlog[i].p
        IN  \A k \in 1..Len(fc) :
              LET j == (k + 1) \div 2
                  c == ChunkOf(p, j)
              IN  IF k % 2 = 1
                  THEN /\ fc[k].kind = "hdr"
                       /\ Len(fc[k].data) = 8
                       /\ fc[k].data[1] = 0
                       /\ fc[k].data[2] + 256 * fc[k].data[3] + 65536 * fc[k].data[4]
                            = Len(Encode(c)) + 4
                       /\ SubSeq(fc[k].data, 5, 8) = LE32(maskChecksum(Checksum(c)))
                       /\ (fc[k].ok => k < Len(fc))
                       /\ (~fc[k].ok => k = Len(fc))
                  ELSE /\ fc[k].kind = "data"
                       /\ fc[k - 1].ok
                       /\ fc[k].data = Encode(c)
                       /\ (~fc[k].ok => k = Len(fc))

\* a call that framed three chunks
FrameLayoutWitness ==
    /\ Len(wlog) >= 1
    /\ wlog[1].err = nil
    /\ Len(FrameCalls(wlog[1])) = 6
    /\ wlog[1].calls[1].kind = "id"

(***************************************************************************)
(* C7. unmaskChecksum(maskChecksum(x)) = x, where the masked value is x    *)
(* rotated right by 15 bits plus 0xa282ead8 modulo 2^32.                   *)
(***************************************************************************)
\* bit i (0 the lowest) of the uint32 v
Bit(v, i) == IF i < 16 THEN (v[2] \div (2 ^ i)) % 2 ELSE (v[1] \div (2 ^ (i - 16))) % 2

RECURSIVE SumBits(_, _, _)
SumBits(v, lo, i) ==
    IF i > lo + 15 THEN 0
    ELSE Bit(v, (i + 15) % 32) * (2 ^ (i - lo)) + SumBits(v, lo, i + 1)

\* the uint32 whose bit i is bit (i + 15) mod 32 of v
RotatedRight15(v) == <<SumBits(v, 16, 16), SumBits(v, 0, 0)>>

MaskRoundTrip ==
    /\ probe.stage >= 1 => probe.masked = Add32(RotatedRight15(probe.x), <<41602, 60120>>)
    /\ probe.stage = 2 => probe.unmasked = probe.x

\* 0xffffffff masked (the addition wraps) and unmasked again
MaskRoundTripWitness ==
    /\ probe.stage = 2
    /\ probe.x = <<65535, 65535>>
    /\ probe.masked = <<41602, 60119>>
    /\ probe.unmasked = <<65535, 65535>>

(***************************************************************************)
(* The frame a Read call meets first: the wire after a leading valid       *)
(* stream identifier, if there is one.                                     *)
(***************************************************************************)
LeadingID == Len(wire) >= 10 /\ SubSeq(wire, 1, 10) = streamID

AtFrame == IF LeadingID THEN SubSeq(wire, 11, Len(wire)) ELSE wire

\* the Read call sees the header of a data frame, the identifier seen
AtDataFrame ==
    /\ rerr = nil
    /\ seenStreamID \/ LeadingID
    /\ Len(AtFrame) >= 4
    /\ AtFrame[1] \in {blockCompressed, blockUncompressed}

DeclaredLen == decodeLength(SubSeq(AtFrame, 2, 4))

\* the step is a Read call that has to decode a frame
NeedsFrame == rres'.called /\ Len(buf) < rres'.req /\ wlog' = wlog

(***************************************************************************)
(* C8. When the first frame header the reader sees is not a stream         *)
(* identifier, Read fails with the missing-stream-identifier error,        *)
(* delivers nothing and takes only the 4 header bytes from the source.     *)
(***************************************************************************)
MissingIDStep ==
    (/\ ~seenStreamID
     /\ rerr = nil
     /\ Len(wire) >= 4
     /\ wire[1] # blockStreamIdentifier
     /\ NeedsFrame)
      => /\ rres'.err = errMissingStreamID
         /\ rerr' = errMissingStreamID
         /\ rres'.n = 0
         /\ delivered' = delivered
         /\ buf' = buf
         /\ wire' = SubSeq(wire, 5, Len(wire))

MissingStreamID == [][MissingIDStep]_vars

\* the error was returned with the frame's payload still in the source
MissingStreamIDWitness ==
    /\ rres.called
    /\ rres.err = errMissingStreamID
    /\ rres.took = 4
    /\ Len(wire) >= 1
    /\ delivered = <<>>

(***************************************************************************)
(* C9. As claimed: a data frame whose declared length exceeds              *)
(* MaxBlockSize + 4 fails with the block-too-large error before any byte   *)
(* of its payload is read and without growing the raw-frame buffer.        *)
(***************************************************************************)
Rejected(limit) ==
    (AtDataFrame /\ DeclaredLen > limit /\ NeedsFrame)
      => /\ rres'.err = <<"encoded block data too large", DeclaredLen>>
         /\ rres'.n = 0
         /\ wire' = SubSeq(AtFrame, 5, Len(AtFrame))
         /\ srcLen' = srcLen
         /\ buf' = buf

OversizeAtBlockSize == [][Rejected(MaxBlockSize + 4)]_vars

(***************************************************************************)
(* C10. For a data frame whose wire checksum, unmasked, differs from the   *)
(* checksum of its decoded bytes: with verification on, Read returns an    *)
(* error and none of the frame's bytes are appended or delivered; with     *)
(* verification off, the decoded bytes are appended and delivered without  *)
(* error: Read returns nil, or end-of-stream when the source is exhausted  *)
(* and nothing is pending.  The frame is complete, decodes, and holds at   *)
(* most MaxBlockSize bytes.                                                *)
(***************************************************************************)
FrameBlock == SubSeq(AtFrame, 9, 4 + DeclaredLen)

FrameDecoded ==
    IF AtFrame[1] = blockCompressed THEN Decode(FrameBlock)
    ELSE [data |-> FrameBlock, err |-> nil]

AtMismatchedFrame ==
    /\ AtDataFrame
    /\ DeclaredLen >= 4
    /\ DeclaredLen <= maxEncodedBlockSize + 4
    /\ Len(AtFrame) >= 4 + DeclaredLen
    /\ FrameDecoded.err = nil
    /\ Len(FrameDecoded.data) <= MaxBlockSize
    /\ unmaskChecksum(FromLE32(SubSeq(AtFrame, 5, 8))) # Checksum(FrameDecoded.data)

ChecksumStep ==
    (AtMismatchedFrame /\ NeedsFrame)
      => IF verifyChecksum
         THEN /\ rres'.err = <<"checksum does not match", 0>>
              /\ rres'.n = 0
              /\ buf' = buf
              /\ delivered' = delivered
         ELSE /\ \/ rres'.err = nil
                 \/ (rres'.err = EOF /\ wire' = <<>> /\ buf' = <<>>)
              /\ delivered' \o buf' = delivered \o buf \o FrameDecoded.data
              /\ rres'.n = Min(rres'.req, Len(buf) + Len(FrameDecoded.data))

ChecksumEnforced == [][ChecksumStep]_vars

(***************************************************************************)
(* C11. Frames that carry no data contribute nothing: for a well-formed    *)
(* stream that starts with the stream identifier, the reader reports no    *)
(* error, and when it first signals end-of-stream the bytes it has         *)
(* delivered are the contents of the stream's data frames, concatenated in *)
(* stream order, whatever padding, skippable and repeated identifier       *)
(* frames lie between them.                                                *)
(***************************************************************************)
SkippedStep == (rerr = nil /\ rerr' = EOF) => delivered' = mode.p

SkippedFramesSilent == [](rres.err \in {nil, EOF}) /\ [][SkippedStep]_vars

\* the step is a Read call with a non-empty request
ReadStep == rres'.called /\ rres'.req > 0 /\ wlog' = wlog

(***************************************************************************)
(* C13. When the source is exhausted at a frame boundary, a Read call with *)
(* a non-empty request signals end-of-stream with 0 bytes if nothing is    *)
(* pending; if bytes are pending it delivers them (as many as requested)   *)
(* without an error, so that once they are all delivered the following     *)
(* Read call is in the first case and signals end-of-stream.               *)
(***************************************************************************)
ExhaustedStep ==
    (rerr = nil /\ wire = <<>> /\ ReadStep)
      => IF buf = <<>>
         THEN /\ rres'.n = 0
              /\ rres'.err = EOF
              /\ rerr' = EOF
              /\ delivered' = delivered
         ELSE /\ rres'.err = nil
              /\ rerr' = nil
              /\ rres'.n = Min(rres'.req, Len(buf))
              /\ delivered' = delivered \o SubSeq(buf, 1, rres'.n)
              /\ buf' = SubSeq(buf, rres'.n + 1, Len(buf))
              /\ wire' = <<>>

ExhaustedSource == [][ExhaustedStep]_vars

\* a Read call asked for more than was pending, with the source exhausted,
\* and got the pending bytes and no error
ExhaustedSourceWitness ==
    /\ rres.called
    /\ rres.pendingBefore > 0
    /\ rres.req > rres.pendingBefore
    /\ rres.n = rres.pendingBefore
    /\ rres.took = 0
    /\ rres.err = nil
    /\ wire = <<>>
    /\ buf = <<>>
    /\ delivered = Accepted(wlog)

(***************************************************************************)
(* C14. For a well-formed stream, Read signals end-of-stream only when the *)
(* source is exhausted and nothing is pending: it never reports            *)
(* end-of-stream while the source still holds frames.                      *)
(***************************************************************************)
CleanEndOfStream ==
    (rres.called /\ rres.err = EOF) => (wire = <<>> /\ buf = <<>>)

(***************************************************************************)
(* C16. Once Read has returned an error other than end-of-stream, every    *)
(* later Read call returns 0 bytes and the same error and takes nothing    *)
(* from the source; the reader's state stays as the failed call left it.   *)
(***************************************************************************)
HardError(e) == e # nil /\ e # EOF /\ e # Panic

StickyStep ==
    (HardError(rres.err) /\ rres'.called /\ wlog' = wlog)
      => /\ rres'.err = rres.err
         /\ rres'.n = 0
         /\ rres'.took = 0
         /\ wire' = wire
         /\ delivered' = delivered
         /\ buf' = buf
         /\ rerr' = rerr

StickyError == [](HardError(rres.err) => rerr = rres.err) /\ [][StickyStep]_vars

\* a checksum error was returned twice, the rest of the stream left unread
StickyErrorWitness ==
    /\ rres.called
    /\ rres.err = <<"checksum does not match", 0>>
    /\ rres.errBefore = rres.err
    /\ rres.req > 0
    /\ rres.took = 0
    /\ Len(wire) >= 4

(***************************************************************************)
(* C17. A Read call with buffer b returns at most min(len(b),              *)
(* MaxBlockSize) bytes, whatever the stream and the earlier Read calls.    *)
(***************************************************************************)
ReadAtMostBlock == rres.called => rres.n <= Min(rres.req, MaxBlockSize)

(***************************************************************************)
(* C18. A Read call on a reader without an error takes nothing from the    *)
(* source when at least len(b) bytes are pending, and returns len(b) of    *)
(* them; otherwise it decodes at most one data frame, with the frames      *)
(* without data before it, and returns: the source is left right after     *)
(* that data frame, or exhausted if no data frame was left.                *)
(***************************************************************************)
\* the data frames the step takes from the source, by their marks
DataFramesTaken == {m \in mode.marks : Len(wire') <= m /\ m < Len(wire)}

OneFrameStep ==
    (rerr = nil /\ rres'.called /\ wlog' = wlog)
      => IF Len(buf) >= rres'.req
         THEN /\ wire' = wire
              /\ rres'.took = 0
              /\ rres'.n = rres'.req
              /\ rres'.err = nil
              /\ delivered' = delivered \o SubSeq(buf, 1, rres'.req)
              /\ buf' = SubSeq(buf, rres'.req + 1, Len(buf))
         ELSE /\ Cardinality(DataFramesTaken) <= 1
              /\ (DataFramesTaken # {} => Len(wire') \in DataFramesTaken)
              /\ (DataFramesTaken = {} => wire' = <<>>)
              /\ Len(delivered') + Len(buf') <= Len(delivered) + Len(buf) + MaxBlockSize

OneFramePerRead == [][OneFrameStep]_vars

\* a Read call returned fewer bytes than asked for, without an error, and
\* the source still holds a data frame
OneFramePerReadWitness ==
    /\ rres.called
    /\ rres.err = nil
    /\ 0 < rres.n /\ rres.n < rres.req
    /\ rres.took > 0
    /\ buf = <<>>
    /\ \E m \in mode.marks : m < Len(wire)

(***************************************************************************)
(* C12. When, the stream identifier seen, the reader meets a complete      *)
(* frame of a type in 0x02..0x7f, Read takes the header and exactly the    *)
(* declared payload from the source and returns an error naming the type;  *)
(* nothing reaches the pending buffer or the caller.                       *)
(***************************************************************************)
UnskippableStep ==
    (/\ rerr = nil
     /\ seenStreamID \/ LeadingID
     /\ Len(AtFrame) >= 4
     /\ AtFrame[1] \in 2..127
     /\ Len(AtFrame) >= 4 + DeclaredLen
     /\ NeedsFrame)
      => /\ rres'.err = <<"unrecognized unskippable frame", AtFrame[1]>>
         /\ rerr' = rres'.err
         /\ rres'.n = 0
         /\ buf' = buf
         /\ delivered' = delivered
         /\ wire' = SubSeq(AtFrame, 5 + DeclaredLen, Len(AtFrame))

UnskippableRejected == [][UnskippableStep]_vars

\* a frame of type 0x02 with a 2-byte payload was refused, the identifier,
\* its header and its payload taken, and the frame after it left in the source
UnskippableRejectedWitness ==
    /\ rres.called
    /\ rres.err = <<"unrecognized unskippable frame", 2>>
    /\ rres.took = 16
    /\ Len(wire) >= 4
    /\ buf = <<>>

(***************************************************************************)
(* C15. When the source ends inside the frame a Read call meets (after 1   *)
(* to 3 header bytes, or with the declared payload of an identifier, data, *)
(* padding, skippable or unskippable frame incomplete), Read returns the   *)
(* unexpected-end-of-stream error, which stays, and not end-of-stream.     *)
(* A frame that is refused for another reason before its payload is read   *)
(* (no identifier seen yet, a length field out of bounds) fails with that  *)
(* error instead, and never with end-of-stream either.                     *)
(***************************************************************************)
TruncatedFrame ==
    \/ Len(AtFrame) \in 1..3
    \/ /\ Len(AtFrame) >= 4
       /\ SubSeq(AtFrame, 1, 4) = SubSeq(streamID, 1, 4)
       /\ Len(AtFrame) < 10
    \/ /\ Len(AtFrame) >= 4
       /\ AtFrame[1] # blockStreamIdentifier
       /\ seenStreamID \/ LeadingID
       /\ Len(AtFrame) < 4 + DeclaredLen
       /\ (AtFrame[1] \in {blockCompressed, blockUncompressed}
             => DeclaredLen <= maxEncodedBlockSize + 4)

\* the source ends inside the frame, whatever else is wrong with the frame
\* (no identifier seen yet, or a length field that is refused)
CutShort ==
    \/ Len(AtFrame) \in 1..3
    \/ (Len(AtFrame) >= 4 /\ Len(AtFrame) < 4 + DeclaredLen)

TruncatedStep ==
    /\ (rerr = nil /\ TruncatedFrame /\ NeedsFrame)
          => /\ rres'.err = ErrUnexpectedEOF
             /\ rerr' = ErrUnexpectedEOF
             /\ rres'.n = 0
             /\ delivered' = delivered
             /\ wire' = <<>>
    /\ (rerr = nil /\ CutShort /\ NeedsFrame)
          => /\ HardError(rres'.err)
             /\ rerr' = rres'.err
             /\ rres'.n = 0

TruncatedIsCorrupt == [][TruncatedStep]_vars

\* a data frame was delivered, and the frame after it was cut in its payload
TruncatedIsCorruptWitness ==
    /\ rres.called
    /\ rres.err = ErrUnexpectedEOF
    /\ rres.errBefore = nil
    /\ seenStreamID
    /\ rres.took > 4
    /\ delivered # <<>>
    /\ wire = <<>>

(***************************************************************************)
(* C19. Every stream-identifier frame a Read call meets, the first or a    *)
(* later one, must be valid: with a length field other than 6 Read fails   *)
(* with the invalid-length error, with a payload other than sNaPpY with    *)
(* the invalid-block error, and seenStreamID is not set by that frame; a   *)
(* valid one sets seenStreamID and adds nothing to the output: the call    *)
(* goes on as it would on the rest of the stream.                          *)
(***************************************************************************)
IdentifierStep ==
    (rerr = nil /\ Len(wire) >= 4 /\ wire[1] = blockStreamIdentifier /\ NeedsFrame)
      => IF SubSeq(wire, 2, 4) # <<6, 0, 0>>
         THEN /\ rres'.err = <<"invalid stream identifier length", 0>>
              /\ rerr' = rres'.err
              /\ rres'.n = 0
              /\ seenStreamID' = seenStreamID
              /\ buf' = buf
              /\ wire' = SubSeq(wire, 5, Len(wire))
         ELSE IF Len(wire) >= 10 /\ SubSeq(wire, 5, 10) # <<115, 78, 97, 80, 112, 89>>
         THEN /\ rres'.err = <<"invalid stream identifier block", 0>>
              /\ rerr' = rres'.err
              /\ rres'.n = 0
              /\ seenStreamID' = seenStreamID
              /\ buf' = buf
              /\ wire' = SubSeq(wire, 11, Len(wire))
         ELSE IF Len(wire) >= 10
         THEN LET q == ReadCall([wire |-> SubSeq(wire, 11, Len(wire)), seen |-> TRUE,
                                 buf |-> buf, srcLen |-> srcLen, err |-> nil],
                                rres'.req, verifyChecksum)
              IN  /\ seenStreamID'
                  /\ rres'.err = q.err
                  /\ delivered' = delivered \o q.out
                  /\ buf' = q.r.buf
                  /\ wire' = q.r.wire
                  /\ (Len(wire) = 10 => delivered' \o buf' = delivered \o buf)
         ELSE TRUE

IdentifierValid == [][IdentifierStep]_vars

\* after a data frame was delivered, a second identifier with a wrong
\* payload was refused
IdentifierValidWitness ==
    /\ rres.called
    /\ rres.err = <<"invalid stream identifier block", 0>>
    /\ rres.errBefore = nil
    /\ seenStreamID
    /\ delivered # <<>>
    /\ rres.took = 10

(***************************************************************************)
(* C20. When the compressor fails on chunk j of a Write call, the call     *)
(* returns 0 and that error; the sink has taken the whole frames of the    *)
(* chunks before j (after the stream identifier, if it was still to be     *)
(* sent and j > 1) and nothing of chunk j or of a later chunk: no          *)
(* identifier, header or payload; sentStreamID is as the chunks before j   *)
(* left it.                                                                *)
(***************************************************************************)
\* the frames of the first k chunks of p
FramesOf(p, k) ==
    Concat([c \in 1..k |-> FrameHeader(ChunkOf(p, c), Encode(ChunkOf(p, c)))
                             \o Encode(ChunkOf(p, c))])

EncodeFailure ==
    \A i \in 1..Len(wlog) :
        LET w == wlog[i]
            j == w.fault[2]
            first == ~w.sentBefore /\ j > 1
        IN  w.fault[1] = "enc"
              => /\ w.err = EncErr
                 /\ w.n = 0
                 /\ \A k \in 1..Len(w.calls) : w.calls[k].ok
                 /\ Len(FrameCalls(w)) = 2 * (j - 1)
                 /\ Len(w.calls) = 2 * (j - 1) + (IF first THEN 1 ELSE 0)
                 /\ SinkBytes(w.calls)
                      = (IF first THEN streamID ELSE <<>>) \o FramesOf(w.p, j - 1)
                 /\ (i = Len(wlog) => (sentStreamID <=> (w.sentBefore \/ j > 1)))

\* the compressor failed on the first chunk of the first call, which left
\* the sink empty, and on the second chunk of the next call, which sent the
\* identifier and one frame
EncodeFailureWitness ==
    /\ Len(wlog) = 2
    /\ wlog[1].fault = <<"enc", 1>>
    /\ wlog[1].calls = <<>>
    /\ ~wlog[2].sentBefore
    /\ wlog[2].fault = <<"enc", 2>>
    /\ Len(wlog[2].calls) = 3
    /\ wlog[2].n = 0
    /\ sentStreamID

(***************************************************************************)
(* C21. While no error has been returned, the bytes delivered so far       *)
(* followed by the pending bytes are the contents of the data frames       *)
(* decoded so far, in stream order: nothing is duplicated, reordered or    *)
(* dropped.                                                                *)
(***************************************************************************)
\* the length of the contents of the data frames taken from the source
DecodedSoFar ==
    LET done == {m \in mode.marks : m >= Len(wire)}
    IN  IF done = {} THEN 0
        ELSE mode.cum[CHOOSE m \in done : \A k \in done : m <= k]

PrefixInvariant ==
    rres.err \in {nil, EOF} => delivered \o buf = SubSeq(mode.p, 1, DecodedSoFar)

\* two data frames were decoded; part of their bytes is delivered and part
\* is pending
PrefixInvariantWitness ==
    /\ rres.called
    /\ rres.err = nil
    /\ buf # <<>>
    /\ Len(delivered) >= 3
    /\ Cardinality({m \in mode.marks : m >= Len(wire)}) >= 2
    /\ Len(delivered) + Len(buf) = 5

(***************************************************************************)
(* C22. After every Read call the pending buffer holds fewer than          *)
(* MaxBlockSize bytes, whatever the stream and the request sizes.          *)
(***************************************************************************)
PendingBound == Len(buf) < MaxBlockSize

\* more than a block has been delivered, and the most the buffer can hold
\* is pending
PendingBoundWitness ==
    /\ rres.called
    /\ Len(buf) = MaxBlockSize - 1
    /\ Len(delivered) > MaxBlockSize
    /\ rres.pendingBefore > 0
    /\ rres.took > 0

(***************************************************************************)
(* C23. A data frame, after the stream identifier, whose declared length   *)
(* is under 4 and so cannot hold the checksum makes Read return an error   *)
(* value: the reader does not abort on it.                                 *)
(***************************************************************************)
ShortFrameStep ==
    (/\ AtDataFrame
     /\ DeclaredLen < 4
     /\ Len(AtFrame) >= 4 + DeclaredLen
     /\ NeedsFrame)
      => /\ HardError(rres'.err)
         /\ rerr' = rres'.err
         /\ rres'.n = 0

ShortFrameRejected == [][ShortFrameStep]_vars

(***************************************************************************)
(* C24. When a Read call needs a frame while bytes are pending and the     *)
(* frame fails with a hard error, Read returns 0 bytes and the error and   *)
(* leaves the pending bytes where they are; no later Read delivers them.   *)
(***************************************************************************)
PendingLostStep ==
    /\ (rerr = nil /\ buf # <<>> /\ NeedsFrame /\ HardError(rres'.err))
          => /\ rres'.n = 0
             /\ buf' = buf
             /\ delivered' = delivered
             /\ rerr' = rres'.err
    /\ (HardError(rerr) /\ rres'.called)
          => /\ delivered' = delivered
             /\ buf' = buf
             /\ rres'.n = 0

PendingLost == [][PendingLostStep]_vars

\* a frame failed with a byte pending, and a later Read call that asked for
\* that byte got the error
PendingLostWitness ==
    /\ rres.called
    /\ HardError(rres.err)
    /\ rres.errBefore = rres.err
    /\ rres.req = 1
    /\ rres.n = 0
    /\ Len(buf) >= 1
    /\ delivered # <<>>

(***************************************************************************)
(* C25. A Write call with an empty input makes no call on the sink, not    *)
(* even for the stream identifier, and leaves the sink and sentStreamID as *)
(* they were; while every input so far was empty the sink is empty, and a  *)
(* Read call of the reader over it signals end-of-stream, not the          *)
(* missing-stream-identifier error.                                        *)
(***************************************************************************)
EmptyWriteStep ==
    (Len(wlog') = Len(wlog) + 1 /\ wlog'[Len(wlog')].p = <<>>)
      => /\ wlog'[Len(wlog')].calls = <<>>
         /\ wire' = wire
         /\ sentStreamID' = sentStreamID

OnlyEmptyWrites == \A i \in 1..Len(wlog) : wlog[i].p = <<>>

EmptyWrite ==
    /\ [][EmptyWriteStep]_vars
    /\ [](OnlyEmptyWrites
            => /\ wire = <<>>
               /\ ~sentStreamID
               /\ delivered = <<>>
               /\ (rres.called /\ rres.req > 0 => (rres.err = EOF /\ rres.n = 0))
               /\ (rres.called => rres.err \in {nil, EOF}))

\* two empty inputs were written, and a Read call signalled end-of-stream
EmptyWriteWitness ==
    /\ Len(wlog) = 2
    /\ OnlyEmptyWrites
    /\ rres.called
    /\ rres.req > 0
    /\ rres.err = EOF
    /\ wire = <<>>
    /\ ~sentStreamID

(***************************************************************************)
(* C26. End-of-stream stays: once a Read call has returned end-of-stream,  *)
(* which it does with 0 bytes, every later Read call returns 0 bytes and   *)
(* end-of-stream and leaves the source alone, also when the writer has     *)
(* added bytes to the source since.                                        *)
(***************************************************************************)
StickyEndStep ==
    /\ (rerr = EOF /\ rres'.called /\ wlog' = wlog)
          => /\ rres'.err = EOF
             /\ rres'.n = 0
             /\ rres'.took = 0
             /\ wire' = wire
             /\ rerr' = EOF
             /\ delivered' = delivered
    /\ (rres'.err = EOF => (rres'.n = 0 /\ rerr' = EOF /\ buf' = <<>>))

StickyEnd == [][StickyEndStep]_vars

\* end-of-stream was returned, the writer then wrote more than a block, and
\* a later Read call returned end-of-stream again with those frames unread
StickyEndWitness ==
    /\ rres.called
    /\ rres.err = EOF
    /\ rres.errBefore = EOF
    /\ rres.req > 0
    /\ Len(wlog) >= 1
    /\ Len(wlog[Len(wlog)].p) > MaxBlockSize
    /\ delivered = <<>>
    /\ Len(wire) > 10

====
